---- MODULE Spec2Model ----
(***************************************************************************)
(* The iso5218 linter of the GS1 Barcode Syntax Dictionary,                *)
(* Sources/CGS1SyntaxEngine/syntax/lint_iso5218.c.                         *)
(*                                                                         *)
(* Each thread of Threads is a caller: it picks a candidate (pointer and   *)
(* length) and two optional output slots, calls gs1_lint_iso5218, and the  *)
(* call then runs statement by statement: the assertion, the length check, *)
(* the character check, the final return.  Bytes are their ASCII codes.    *)
(***************************************************************************)
EXTENDS Integers, Sequences, FiniteSets

\* ---- bounds of the model ------------------------------------------------
MaxLen == 2
NThreads == 2

\* ---- bytes that appear in the source ------------------------------------
ChNul == 0
ChSlash == 47
Ch0 == 48
Ch1 == 49
Ch2 == 50
Ch3 == 51
Ch9 == 57
ChColon == 58

Bytes == {ChNul, ChSlash, Ch0, Ch1, Ch2, Ch3, Ch9, ChColon}

Threads == 1..NThreads

GS1_LINTER_OK == "GS1_LINTER_OK"
GS1_LINTER_INVALID_BIOLOGICAL_SEX_CODE == "GS1_LINTER_INVALID_BIOLOGICAL_SEX_CODE"
NoOutcome == "none"

\* What a caller's output slot holds before the call: a value the linter
\* never writes (ranges lie inside 0..MaxLen).
Stale == MaxLen + 1

\* Sequences over S of length 0..n.
SeqUpTo(S, n) == UNION {[1..k -> S] : k \in 0..n}

\* The arguments of one call.  data_null: the candidate pointer is NULL.
\* data: the bytes the candidate pointer points to, exactly data_len of them
\* (nothing is assumed to follow them).  has_pos / has_len: err_pos / err_len
\* is not NULL.
Inputs ==
    {[data_null |-> FALSE, data |-> d, data_len |-> Len(d), has_pos |-> hp, has_len |-> hl] :
        d \in SeqUpTo(Bytes, MaxLen), hp \in BOOLEAN, hl \in BOOLEAN}
    \cup
    {[data_null |-> TRUE, data |-> <<>>, data_len |-> n, has_pos |-> hp, has_len |-> hl] :
        n \in 0..MaxLen, hp \in BOOLEAN, hl \in BOOLEAN}

\* The callers whose calls overlap: each supplies both output slots, and
\* their candidates are over a two-byte alphabet (one accepted code, one
\* rejected byte).
ConcBytes == {Ch1, ChColon}

ConcInputs ==
    {a \in Inputs : /\ a.has_pos /\ a.has_len
                    /\ \A i \in 1..Len(a.data) : a.data[i] \in ConcBytes}

NoCall == [data_null |-> FALSE, data |-> <<>>, data_len |-> 0, has_pos |-> FALSE, has_len |-> FALSE]

VARIABLES
    pc,        \* pc[t]: where thread t is: idle, assert, len_check, char_check, return_ok, done, aborted
    arg,       \* arg[t]: the arguments of t's call
    err_pos,   \* err_pos[t]: content of the slot err_pos points to
    err_len,   \* err_len[t]: content of the slot err_len points to
    ret,       \* ret[t]: the returned gs1_lint_err_t, or NoOutcome
    reads,     \* reads[t]: the indices of data the call has read
    wrote      \* wrote[t]: the output slots the call has stored to

vars == <<pc, arg, err_pos, err_len, ret, reads, wrote>>

TypeOK ==
    /\ pc \in [Threads -> {"idle", "assert", "len_check", "char_check", "return_ok", "done", "aborted"}]
    /\ arg \in [Threads -> Inputs]
    /\ err_pos \in [Threads -> 0..Stale]
    /\ err_len \in [Threads -> 0..Stale]
    /\ ret \in [Threads -> {NoOutcome, GS1_LINTER_OK, GS1_LINTER_INVALID_BIOLOGICAL_SEX_CODE}]
    /\ reads \in [Threads -> SUBSET (0..MaxLen)]
    /\ wrote \in [Threads -> SUBSET {"err_pos", "err_len"}]

Init ==
    /\ pc = [t \in Threads |-> "idle"]
    /\ arg = [t \in Threads |-> NoCall]
    /\ err_pos = [t \in Threads |-> Stale]
    /\ err_len = [t \in Threads |-> Stale]
    /\ ret = [t \in Threads |-> NoOutcome]
    /\ reads = [t \in Threads |-> {}]
    /\ wrote = [t \in Threads |-> {}]

\* assert() ends the process with abort(): once a thread has failed the
\* assertion no thread runs any more.
Aborted == \E t \in Threads : pc[t] = "aborted"

\* ---- helpers --------------------------------------------------------------

\* data[i]: the byte at index i (0-based) of the candidate.  A read outside
\* the data_len bytes of the candidate is undefined: any byte may come back.
Deref(a, i) ==
    IF ~a.data_null /\ i < Len(a.data) THEN {a.data[i + 1]} ELSE Bytes

\* Mutant: the membership test written as a range test, '0' <= c <= '9'.
NotSexCode_range(c) == c < Ch0 \/ c > Ch9

\* data[0] != '0' && data[0] != '1' && data[0] != '2' && data[0] != '9'
NotSexCode(c) == c # Ch0 /\ c # Ch1 /\ c # Ch2 /\ c # Ch9

\* GS1_LINTER_RETURN_ERROR(error, position, length): store position and
\* length through err_pos and err_len where they are not NULL, return error.
GS1_LINTER_RETURN_ERROR(t, error, position, length) ==
    /\ err_pos' = [err_pos EXCEPT ![t] = IF arg[t].has_pos THEN position ELSE @]
    /\ err_len' = [err_len EXCEPT ![t] = IF arg[t].has_len THEN length ELSE @]
    /\ wrote' = [wrote EXCEPT ![t] = @ \cup (IF arg[t].has_pos THEN {"err_pos"} ELSE {})
                                       \cup (IF arg[t].has_len THEN {"err_len"} ELSE {})]
    /\ ret' = [ret EXCEPT ![t] = error]
    /\ pc' = [pc EXCEPT ![t] = "done"]

\* GS1_LINTER_RETURN_OK: return GS1_LINTER_OK, the output slots untouched.
GS1_LINTER_RETURN_OK(t) ==
    /\ ret' = [ret EXCEPT ![t] = GS1_LINTER_OK]
    /\ pc' = [pc EXCEPT ![t] = "done"]
    /\ UNCHANGED <<err_pos, err_len, wrote>>

\* ---- the caller -----------------------------------------------------------

\* A caller enters gs1_lint_iso5218 with some arguments of I and fresh slots.
Call(t, I) ==
    /\ ~Aborted
    /\ pc[t] = "idle"
    /\ \E a \in I : arg' = [arg EXCEPT ![t] = a]
    /\ pc' = [pc EXCEPT ![t] = "assert"]
    /\ err_pos' = [err_pos EXCEPT ![t] = Stale]
    /\ err_len' = [err_len EXCEPT ![t] = Stale]
    /\ ret' = [ret EXCEPT ![t] = NoOutcome]
    /\ reads' = [reads EXCEPT ![t] = {}]
    /\ wrote' = [wrote EXCEPT ![t] = {}]

\* The caller has consumed the result; its buffer and slots go away.
Return(t) ==
    /\ ~Aborted
    /\ pc[t] = "done"
    /\ pc' = [pc EXCEPT ![t] = "idle"]
    /\ arg' = [arg EXCEPT ![t] = NoCall]
    /\ err_pos' = [err_pos EXCEPT ![t] = Stale]
    /\ err_len' = [err_len EXCEPT ![t] = Stale]
    /\ ret' = [ret EXCEPT ![t] = NoOutcome]
    /\ reads' = [reads EXCEPT ![t] = {}]
    /\ wrote' = [wrote EXCEPT ![t] = {}]

\* ---- gs1_lint_iso5218, statement by statement -----------------------------

\* Mutant: the assertion compiled away, a NULL candidate goes on to the checks.
AssertData_off(t) ==
    /\ ~Aborted
    /\ pc[t] = "assert"
    /\ pc' = [pc EXCEPT ![t] = "len_check"]
    /\ UNCHANGED <<arg, err_pos, err_len, ret, reads, wrote>>

\* assert(data);
AssertData(t) ==
    /\ ~Aborted
    /\ pc[t] = "assert"
    /\ pc' = [pc EXCEPT ![t] = IF arg[t].data_null THEN "aborted" ELSE "len_check"]
    /\ UNCHANGED <<arg, err_pos, err_len, ret, reads, wrote>>

\* Mutant: the length error flags one byte instead of the whole input.
LenCheck_one(t) ==
    /\ ~Aborted
    /\ pc[t] = "len_check"
    /\ IF arg[t].data_len # 1
         THEN GS1_LINTER_RETURN_ERROR(t, GS1_LINTER_INVALID_BIOLOGICAL_SEX_CODE, 0, 1)
         ELSE /\ pc' = [pc EXCEPT ![t] = "char_check"]
              /\ UNCHANGED <<err_pos, err_len, ret, wrote>>
    /\ UNCHANGED <<arg, reads>>

\* Mutant: the length test written data_len > 1, an empty candidate goes on
\* to the character check.
LenCheck_gt(t) ==
    /\ ~Aborted
    /\ pc[t] = "len_check"
    /\ IF arg[t].data_len > 1
         THEN GS1_LINTER_RETURN_ERROR(t, GS1_LINTER_INVALID_BIOLOGICAL_SEX_CODE, 0, arg[t].data_len)
         ELSE /\ pc' = [pc EXCEPT ![t] = "char_check"]
              /\ UNCHANGED <<err_pos, err_len, ret, wrote>>
    /\ UNCHANGED <<arg, reads>>

\* Mutant: the length test written as a loop, while (data_len != 1), that
\* never leaves on a wrong length.
LenCheck_spin(t) ==
    /\ ~Aborted
    /\ pc[t] = "len_check"
    /\ IF arg[t].data_len # 1
         THEN UNCHANGED <<pc, err_pos, err_len, ret, wrote>>
         ELSE /\ pc' = [pc EXCEPT ![t] = "char_check"]
              /\ UNCHANGED <<err_pos, err_len, ret, wrote>>
    /\ UNCHANGED <<arg, reads>>

\* Mutant: data_len kept in a static variable that every call in progress
\* stores to, so the test may see another call's length.
LenCheck_static(t) ==
    /\ ~Aborted
    /\ pc[t] = "len_check"
    /\ \E u \in Threads :
         /\ pc[u] \notin {"idle", "done"}
         /\ IF arg[u].data_len # 1
              THEN GS1_LINTER_RETURN_ERROR(t, GS1_LINTER_INVALID_BIOLOGICAL_SEX_CODE, 0, arg[u].data_len)
              ELSE /\ pc' = [pc EXCEPT ![t] = "char_check"]
                   /\ UNCHANGED <<err_pos, err_len, ret, wrote>>
    /\ UNCHANGED <<arg, reads>>

\* if (data_len != 1) GS1_LINTER_RETURN_ERROR(..., 0, data_len);
LenCheck(t) ==
    /\ ~Aborted
    /\ pc[t] = "len_check"
    /\ IF arg[t].data_len # 1
         THEN GS1_LINTER_RETURN_ERROR(t, GS1_LINTER_INVALID_BIOLOGICAL_SEX_CODE, 0, arg[t].data_len)
         ELSE /\ pc' = [pc EXCEPT ![t] = "char_check"]
              /\ UNCHANGED <<err_pos, err_len, ret, wrote>>
    /\ UNCHANGED <<arg, reads>>

\* Mutant: the bad character reported at position 1 (counted from one).
CharCheck_pos1(t) ==
    /\ ~Aborted
    /\ pc[t] = "char_check"
    /\ reads' = [reads EXCEPT ![t] = @ \cup {0}]
    /\ \E c \in Deref(arg[t], 0) :
         IF NotSexCode(c)
           THEN GS1_LINTER_RETURN_ERROR(t, GS1_LINTER_INVALID_BIOLOGICAL_SEX_CODE, 1, 1)
           ELSE /\ pc' = [pc EXCEPT ![t] = "return_ok"]
                /\ UNCHANGED <<err_pos, err_len, ret, wrote>>
    /\ UNCHANGED arg

\* Mutant: the bad character reported with an empty range.
CharCheck_empty(t) ==
    /\ ~Aborted
    /\ pc[t] = "char_check"
    /\ reads' = [reads EXCEPT ![t] = @ \cup {0}]
    /\ \E c \in Deref(arg[t], 0) :
         IF NotSexCode(c)
           THEN GS1_LINTER_RETURN_ERROR(t, GS1_LINTER_INVALID_BIOLOGICAL_SEX_CODE, 0, 0)
           ELSE /\ pc' = [pc EXCEPT ![t] = "return_ok"]
                /\ UNCHANGED <<err_pos, err_len, ret, wrote>>
    /\ UNCHANGED arg

\* Mutant: the candidate pointer kept in a static variable that every call
\* in progress stores to, so the test may read another call's buffer.
CharCheck_static(t) ==
    /\ ~Aborted
    /\ pc[t] = "char_check"
    /\ reads' = [reads EXCEPT ![t] = @ \cup {0}]
    /\ \E u \in Threads :
         /\ pc[u] \notin {"idle", "done"}
         /\ \E c \in Deref(arg[u], 0) :
              IF NotSexCode(c)
                THEN GS1_LINTER_RETURN_ERROR(t, GS1_LINTER_INVALID_BIOLOGICAL_SEX_CODE, 0, 1)
                ELSE /\ pc' = [pc EXCEPT ![t] = "return_ok"]
                     /\ UNCHANGED <<err_pos, err_len, ret, wrote>>
    /\ UNCHANGED arg

\* if (data[0] is none of '0','1','2','9') GS1_LINTER_RETURN_ERROR(..., 0, 1);
CharCheck(t) ==
    /\ ~Aborted
    /\ pc[t] = "char_check"
    /\ reads' = [reads EXCEPT ![t] = @ \cup {0}]
    /\ \E c \in Deref(arg[t], 0) :
         IF NotSexCode(c)
           THEN GS1_LINTER_RETURN_ERROR(t, GS1_LINTER_INVALID_BIOLOGICAL_SEX_CODE, 0, 1)
           ELSE /\ pc' = [pc EXCEPT ![t] = "return_ok"]
                /\ UNCHANGED <<err_pos, err_len, ret, wrote>>
    /\ UNCHANGED arg

\* Mutant: the success return also clears the output slots.
ReturnOk_clear(t) ==
    /\ ~Aborted
    /\ pc[t] = "return_ok"
    /\ GS1_LINTER_RETURN_ERROR(t, GS1_LINTER_OK, 0, 0)
    /\ UNCHANGED <<arg, reads>>

\* GS1_LINTER_RETURN_OK;
ReturnOk(t) ==
    /\ ~Aborted
    /\ pc[t] = "return_ok"
    /\ GS1_LINTER_RETURN_OK(t)
    /\ UNCHANGED <<arg, reads>>

\* One statement of t's call.
Run(t) == AssertData(t) \/ LenCheck(t) \/ CharCheck(t) \/ ReturnOk(t)

\* No other thread is inside a call or holding a result.
Alone(t) == \A u \in Threads \ {t} : pc[u] = "idle"

\* Calls one at a time.
Next ==
    \/ \E t \in Threads : Alone(t) /\ Call(t, Inputs)
    \/ \E t \in Threads : Alone(t) /\ AssertData(t)
    \/ \E t \in Threads : Alone(t) /\ LenCheck(t)
    \/ \E t \in Threads : Alone(t) /\ CharCheck(t)
    \/ \E t \in Threads : Alone(t) /\ ReturnOk(t)
    \/ \E t \in Threads : Alone(t) /\ Return(t)

Spec == Init /\ [][Next]_vars

\* Calls one at a time, a running call keeps running.
FairSpec == Spec /\ \A t \in Threads : WF_vars(Alone(t) /\ Run(t))

\* Calls of different threads overlap, their statements interleave freely.
ConcNext ==
    \/ \E t \in Threads : Call(t, ConcInputs)
    \/ \E t \in Threads : AssertData(t)
    \/ \E t \in Threads : LenCheck(t)
    \/ \E t \in Threads : CharCheck(t)
    \/ \E t \in Threads : ReturnOk(t)
    \/ \E t \in Threads : Return(t)

ConcSpec == Init /\ [][ConcNext]_vars

\* ---- gs1_lint_iso5218 as one call -----------------------------------------

\* What the call with arguments a leaves behind when nothing else runs: where
\* it ends, what it returns, and the content of the two slots.
gs1_lint_iso5218(a) ==
    LET error(position, length) ==
            [pc |-> "done", ret |-> GS1_LINTER_INVALID_BIOLOGICAL_SEX_CODE,
             err_pos |-> IF a.has_pos THEN position ELSE Stale,
             err_len |-> IF a.has_len THEN length ELSE Stale]
    IN  IF a.data_null
          THEN [pc |-> "aborted", ret |-> NoOutcome, err_pos |-> Stale, err_len |-> Stale]
        ELSE IF a.data_len # 1
          THEN error(0, a.data_len)
        ELSE IF NotSexCode(a.data[1])
          THEN error(0, 1)
        ELSE [pc |-> "done", ret |-> GS1_LINTER_OK, err_pos |-> Stale, err_len |-> Stale]

\* ---- the claims -----------------------------------------------------------

Returned(t) == pc[t] = "done"

Outcomes == {GS1_LINTER_OK, GS1_LINTER_INVALID_BIOLOGICAL_SEX_CODE}

\* The candidate of t's call is exactly one of "0", "1", "2", "9".
IsSexCode(t) ==
    /\ arg[t].data_len = 1
    /\ arg[t].data \in {<<Ch0>>, <<Ch1>>, <<Ch2>>, <<Ch9>>}

\* C1: a call on a non-null candidate returns GS1_LINTER_OK exactly when
\* data_len is 1 and data[0] is one of '0', '1', '2', '9'; otherwise it returns
\* GS1_LINTER_INVALID_BIOLOGICAL_SEX_CODE; nothing else is ever returned.
C1_ExactSet ==
    \A t \in Threads :
        /\ ret[t] \in Outcomes \cup {NoOutcome}
        /\ Returned(t) <=> ret[t] \in Outcomes
        /\ Returned(t) =>
             /\ ~arg[t].data_null
             /\ ret[t] = GS1_LINTER_OK <=> IsSexCode(t)
             /\ ret[t] = GS1_LINTER_INVALID_BIOLOGICAL_SEX_CODE <=> ~IsSexCode(t)

C1_Witness ==
    \E t \in Threads :
        Returned(t) /\ arg[t].data = <<Ch9>> /\ ret[t] = GS1_LINTER_OK

\* C2: a call with data_len # 1 (0 included) reports the range (0, data_len),
\* whatever the bytes are.
C2_LengthRange ==
    \A t \in Threads :
        (Returned(t) /\ arg[t].data_len # 1) =>
            /\ ret[t] = GS1_LINTER_INVALID_BIOLOGICAL_SEX_CODE
            /\ arg[t].has_pos => err_pos[t] = 0
            /\ arg[t].has_len => err_len[t] = arg[t].data_len

C2_Witness ==
    \E t \in Threads :
        /\ Returned(t) /\ arg[t].data = <<Ch0, Ch1>>
        /\ arg[t].has_pos /\ arg[t].has_len
        /\ err_pos[t] = 0 /\ err_len[t] = 2

\* C3: a call with data_len = 1 whose byte is none of '0', '1', '2', '9'
\* reports the range (0, 1).
C3_ContentRange ==
    \A t \in Threads :
        (Returned(t) /\ arg[t].data_len = 1 /\ ~IsSexCode(t)) =>
            /\ ret[t] = GS1_LINTER_INVALID_BIOLOGICAL_SEX_CODE
            /\ arg[t].has_pos => err_pos[t] = 0
            /\ arg[t].has_len => err_len[t] = 1

C3_Witness ==
    \E t \in Threads :
        /\ Returned(t) /\ arg[t].data = <<ChColon>>
        /\ arg[t].has_pos /\ arg[t].has_len
        /\ err_pos[t] = 0 /\ err_len[t] = 1

\* C4: on an error return the reported range lies inside the candidate,
\* err_pos + err_len <= data_len, and the range (0, 0) is reported only for
\* data_len = 0.
C4_RangeInside ==
    \A t \in Threads :
        (/\ Returned(t) /\ ret[t] = GS1_LINTER_INVALID_BIOLOGICAL_SEX_CODE
         /\ arg[t].has_pos /\ arg[t].has_len) =>
            /\ err_pos[t] + err_len[t] <= arg[t].data_len
            /\ (err_pos[t] = 0 /\ err_len[t] = 0) => arg[t].data_len = 0

C4_Witness ==
    \E t \in Threads :
        /\ Returned(t) /\ ret[t] = GS1_LINTER_INVALID_BIOLOGICAL_SEX_CODE
        /\ arg[t].has_pos /\ arg[t].has_len
        /\ arg[t].data_len = 0 /\ err_pos[t] = 0 /\ err_len[t] = 0

\* C5: with both output slots supplied, an error return has stored to both of
\* them, and a GS1_LINTER_OK return has stored to neither: both still hold
\* what they held before the call.
C5_SlotsFrame ==
    \A t \in Threads :
        (Returned(t) /\ arg[t].has_pos /\ arg[t].has_len) =>
            /\ ret[t] = GS1_LINTER_INVALID_BIOLOGICAL_SEX_CODE =>
                 /\ wrote[t] = {"err_pos", "err_len"}
                 /\ err_pos[t] # Stale /\ err_len[t] # Stale
            /\ ret[t] = GS1_LINTER_OK =>
                 /\ wrote[t] = {}
                 /\ err_pos[t] = Stale /\ err_len[t] = Stale

C5_Witness ==
    \E t \in Threads :
        /\ Returned(t) /\ arg[t].has_pos /\ arg[t].has_len
        /\ ret[t] = GS1_LINTER_OK
        /\ err_pos[t] = Stale /\ err_len[t] = Stale

\* C6: a call never reads a byte at an index >= data_len: data[0] is read only
\* when data_len = 1, and for any other data_len no byte is read at all.
C6_NoOverread ==
    \A t \in Threads :
        ~arg[t].data_null =>
            /\ \A i \in reads[t] : i < arg[t].data_len
            /\ arg[t].data_len # 1 => reads[t] = {}
            /\ reads[t] \subseteq {0}

C6_Witness ==
    \E t \in Threads :
        Returned(t) /\ arg[t].data_len = 1 /\ reads[t] = {0}

\* C7: a call on a NULL candidate stops at the assertion for every data_len,
\* 0 included: it never gets to the length check, returns no outcome and
\* stores to neither slot.
C7_NullAborts ==
    \A t \in Threads :
        arg[t].data_null =>
            /\ pc[t] \in {"assert", "aborted"}
            /\ ret[t] = NoOutcome
            /\ wrote[t] = {}
            /\ err_pos[t] = Stale /\ err_len[t] = Stale

C7_Witness ==
    \E t \in Threads :
        /\ pc[t] = "aborted" /\ arg[t].data_null /\ arg[t].data_len = 0
        /\ arg[t].has_pos /\ arg[t].has_len

\* C8: every call on a non-null candidate comes to an end with one of the two
\* outcomes, and an outcome once produced is not replaced by another.
C8_Total ==
    /\ \A t \in Threads :
         (pc[t] = "assert" /\ ~arg[t].data_null) ~> (Returned(t) /\ ret[t] \in Outcomes)
    /\ [][\A t \in Threads :
            ret[t] \in Outcomes => (ret'[t] = ret[t] \/ pc'[t] = "idle")]_vars

C8_Witness ==
    \E t \in Threads :
        /\ Returned(t) /\ ~arg[t].data_null /\ arg[t].data_len = MaxLen
        /\ ret[t] = GS1_LINTER_INVALID_BIOLOGICAL_SEX_CODE

\* C9: two calls with the same data bytes and the same data_len yield the
\* same outcome and the same error range, whatever ran in between.
C9_Deterministic ==
    \A t, u \in Threads :
        (/\ Returned(t) /\ Returned(u)
         /\ arg[t].data = arg[u].data /\ arg[t].data_len = arg[u].data_len) =>
            /\ ret[t] = ret[u]
            /\ (arg[t].has_pos /\ arg[u].has_pos) => err_pos[t] = err_pos[u]
            /\ (arg[t].has_len /\ arg[u].has_len) => err_len[t] = err_len[u]

C9_Witness ==
    \E t, u \in Threads :
        /\ t # u /\ Returned(t) /\ Returned(u)
        /\ arg[t].data = <<ChColon>> /\ arg[u].data = <<ChColon>>
        /\ ret[t] = GS1_LINTER_INVALID_BIOLOGICAL_SEX_CODE
        /\ ret[u] = GS1_LINTER_INVALID_BIOLOGICAL_SEX_CODE
        /\ err_len[t] = 1 /\ err_len[u] = 1

\* What t's call has left behind.
Left(t) == [pc |-> pc[t], ret |-> ret[t], err_pos |-> err_pos[t], err_len |-> err_len[t]]

\* A step that is not u's changes nothing of u's: arguments, slots, outcome.
Untouched(u) ==
    pc'[u] = pc[u] =>
        /\ arg'[u] = arg[u] /\ ret'[u] = ret[u]
        /\ err_pos'[u] = err_pos[u] /\ err_len'[u] = err_len[u]
        /\ reads'[u] = reads[u] /\ wrote'[u] = wrote[u]

\* C10: calls that overlap, each on its own buffer and slots, end under every
\* interleaving as the same call ends when it runs alone; a call reads only
\* its own buffer and stores only to its own slots.
C10_Independent ==
    /\ [](\A t \in Threads :
            /\ pc[t] \in {"done", "aborted"} => Left(t) = gs1_lint_iso5218(arg[t])
            /\ ~arg[t].data_null => \A i \in reads[t] : i < arg[t].data_len)
    /\ [][\A u \in Threads : Untouched(u)]_vars

C10_Witness ==
    \E t, u \in Threads :
        /\ t # u
        /\ pc[t] = "return_ok" /\ reads[t] = {0}
        /\ pc[u] = "char_check" /\ arg[u].data = <<ChColon>>

====
